---- MODULE Spec2Model ----
(***************************************************************************)
(* Model of dump_code.py: the command-line entry point, the ignore-rule    *)
(* loader (get_gitignore_spec), the extension filter (is_likely_binary)    *)
(* and the walk / read / publish pipeline of dump_all_files.               *)
(*                                                                         *)
(* File and directory names are sequences of one-character strings, so     *)
(* that Path.suffix, str.lower and str.startswith are computed on the      *)
(* characters.  A relative path is a sequence of names.  The file system   *)
(* is an input: every os.walk step draws the listing of the directory it   *)
(* scans, and every open() draws its outcome.                              *)
(***************************************************************************)
EXTENDS Integers, Sequences, FiniteSets, TLC

VARIABLES argc, pc, ignoreFile, gitignore_spec, stack, root, dirs, files,
          output, skipped_count, clipboard, stdout, visited, opens, listings

vars == <<argc, pc, ignoreFile, gitignore_spec, stack, root, dirs, files,
          output, skipped_count, clipboard, stdout, visited, opens, listings>>

(* ------------------------------ bounds --------------------------------- *)
MaxArgc == 3
MaxFiles == 2
MaxDirs == 2
MaxFailures == 1

(* ------------------------------- names --------------------------------- *)
gitignore_name == <<".","g","i","t","i","g","n","o","r","e">>
secret_txt == <<"s","e","c","r","e","t",".","t","x","t">>
public_txt == <<"p","u","b","l","i","c",".","t","x","t">>
logo_PNG == <<"l","o","g","o",".","P","N","G">>
dot_git == <<".","g","i","t">>
dot_github == <<".","g","i","t","h","u","b">>
src_dir == <<"s","r","c">>

FileOrder == <<gitignore_name, logo_PNG, public_txt, secret_txt>>
DirOrder == <<dot_git, dot_github, src_dir>>
PlainNames == {logo_PNG, public_txt, secret_txt}
DirNames == {dot_git, dot_github, src_dir}

base_path == << <<"p","r","o","j">> >>

(* --------------------------- string helpers ---------------------------- *)
UpperChars == <<"A","B","C","D","E","F","G","H","I","J","K","L","M",
                "N","O","P","Q","R","S","T","U","V","W","X","Y","Z">>
LowerChars == <<"a","b","c","d","e","f","g","h","i","j","k","l","m",
                "n","o","p","q","r","s","t","u","v","w","x","y","z">>

(* the table str.lower goes by, for the letters names are written with *)
LowerOf == [c \in {UpperChars[i] : i \in 1..Len(UpperChars)} |->
              LowerChars[CHOOSE i \in 1..Len(UpperChars) : UpperChars[i] = c]]

lower_char(c) == IF c \in DOMAIN LowerOf THEN LowerOf[c] ELSE c

lower(s) == [i \in 1..Len(s) |-> lower_char(s[i])]

(* str.rfind('.') as a 1-based index, 0 when there is no dot *)
rfind_dot(s) ==
    LET ds == {i \in 1..Len(s) : s[i] = "."}
    IN IF ds = {} THEN 0 ELSE CHOOSE i \in ds : \A j \in ds : j <= i

(* PurePath.suffix: the last dot and what follows it, unless that dot is   *)
(* the first or the last character of the name                             *)
suffix(name) ==
    LET i == rfind_dot(name)
    IN IF 1 < i /\ i < Len(name) THEN SubSeq(name, i, Len(name)) ELSE <<>>

startswith(s, prefix) ==
    Len(s) >= Len(prefix) /\ SubSeq(s, 1, Len(prefix)) = prefix

BINARY_EXTENSIONS == {
    <<".","p","n","g">>, <<".","j","p","g">>, <<".","j","p","e","g">>,
    <<".","g","i","f">>, <<".","b","m","p">>, <<".","t","i","f","f">>,
    <<".","i","c","o">>, <<".","w","e","b","p">>, <<".","s","v","g">>,
    <<".","m","p","3">>, <<".","m","p","4">>, <<".","w","a","v">>,
    <<".","a","v","i">>, <<".","m","o","v">>, <<".","f","l","v">>,
    <<".","m","k","v">>, <<".","w","e","b","m">>, <<".","z","i","p">>,
    <<".","t","a","r">>, <<".","g","z">>, <<".","r","a","r">>,
    <<".","7","z">>, <<".","b","z","2">>, <<".","e","x","e">>,
    <<".","d","l","l">>, <<".","s","o">>, <<".","d","y","l","i","b">>,
    <<".","b","i","n">>, <<".","p","d","f">>, <<".","d","o","c">>,
    <<".","d","o","c","x">>, <<".","x","l","s">>, <<".","x","l","s","x">>,
    <<".","p","p","t">>, <<".","p","p","t","x">>,
    <<".","c","l","a","s","s">>, <<".","p","y","c">>, <<".","o">>,
    <<".","o","b","j">>, <<".","t","t","f">>, <<".","o","t","f">>,
    <<".","w","o","f","f">>, <<".","w","o","f","f","2">>,
    <<".","e","o","t">>, <<".","l","o","c","k","b">>
}

is_likely_binary_case_sensitive(filepath) ==
    suffix(filepath[Len(filepath)]) \in BINARY_EXTENSIONS

is_likely_binary(filepath) ==
    lower(suffix(filepath[Len(filepath)])) \in BINARY_EXTENSIONS

(* ---------------------------- ignore rules ----------------------------- *)
(* A pattern is a gitignore line without slash or wildcard: a bare name,   *)
(* possibly negated with '!'.                                              *)
(* the contents the ignore file may have *)
IgnoreFiles == {<<>>,
                << [neg |-> FALSE, name |-> secret_txt] >>,
                << [neg |-> FALSE, name |-> logo_PNG] >>,
                << [neg |-> FALSE, name |-> secret_txt], [neg |-> TRUE, name |-> secret_txt] >>}

(* a bare name matches a path when it names the file or one of the         *)
(* directories above it                                                    *)
pattern_match(pat, rel_path) ==
    \E i \in 1..Len(rel_path) : rel_path[i] = pat.name

(* PathSpec.match_file: the last pattern that matches decides *)
match_file(patterns, rel_path) ==
    LET hits == {i \in 1..Len(patterns) : pattern_match(patterns[i], rel_path)}
    IN hits # {} /\
       ~ patterns[CHOOSE i \in hits : \A j \in hits : j <= i].neg

None == [isNone |-> TRUE, patterns |-> <<>>]
PathSpec(patterns) == [isNone |-> FALSE, patterns |-> patterns]

(* truth value of the spec object: None and a PathSpec without patterns    *)
(* are both false                                                          *)
truthy(spec) == ~ spec.isNone /\ Len(spec.patterns) > 0

Classify_BinaryFirst(spec, rel_path) ==
    IF is_likely_binary(base_path \o rel_path) THEN "binary"
    ELSE IF truthy(spec) /\ match_file(spec.patterns, rel_path) THEN "ignored"
    ELSE "candidate"

Classify_NoIgnore(spec, rel_path) ==
    IF is_likely_binary(base_path \o rel_path) THEN "binary" ELSE "candidate"

(* the filter chain of the loop body *)
Classify(spec, rel_path) ==
    IF truthy(spec) /\ match_file(spec.patterns, rel_path) THEN "ignored"
    ELSE IF is_likely_binary(base_path \o rel_path) THEN "binary"
    ELSE "candidate"

(* ------------------------------- errors -------------------------------- *)
(* what an open() for reading may raise *)
ReadErrors == {"UnicodeDecodeError", "PermissionError", "IsADirectoryError",
               "FileNotFoundError", "OSError"}
SkipErrors_NoPermission == {"UnicodeDecodeError", "IsADirectoryError"}
SkipErrors_AllOSErrors == {"UnicodeDecodeError", "PermissionError", "IsADirectoryError",
                           "FileNotFoundError", "OSError"}
SkipErrors == {"UnicodeDecodeError", "PermissionError", "IsADirectoryError"}
LoadErrors == {"UnicodeDecodeError", "PermissionError"}

(* ------------------------------- output -------------------------------- *)
Header(rel_path) == [kind |-> "header", path |-> rel_path, err |-> "none"]
Content(rel_path) == [kind |-> "content", path |-> rel_path, err |-> "none"]
CouldNotRead(filepath, e) == [kind |-> "could_not_read", path |-> filepath, err |-> e]
Blank == [kind |-> "blank", path |-> <<>>, err |-> "none"]
Newline == [kind |-> "newline", path |-> <<>>, err |-> "none"]

RECURSIVE join(_)
join(segs) ==
    IF Len(segs) = 0 THEN <<>>
    ELSE IF Len(segs) = 1 THEN segs
    ELSE <<Head(segs), Newline>> \o join(Tail(segs))

(* ------------------------------ os.walk -------------------------------- *)
InOrder(order, S) == SelectSeq(order, LAMBDA x : x \in S)

Reverse(s) == [i \in 1..Len(s) |-> s[Len(s) + 1 - i]]

prune_exact(ds) == SelectSeq(ds, LAMBDA d : d # dot_git)

prune(ds) == SelectSeq(ds, LAMBDA d : ~ startswith(d, dot_git))

(* the directories os.walk pushes once the loop body has returned *)
Pushed == stack \o [i \in 1..Len(dirs) |-> Append(root, Reverse(dirs)[i])]

(* what the file system may hold: MaxFiles files besides the ignore file   *)
(* and MaxDirs directories below the root                                  *)
RECURSIVE Sum(_, _)
Sum(f, n) == IF n = 0 THEN 0 ELSE f[n] + Sum(f, n - 1)

FilesSeen == Sum([i \in 1..Len(listings) |->
                    Len(SelectSeq(listings[i].files, LAMBDA f : f # gitignore_name))],
                 Len(listings))
DirsSeen == Sum([i \in 1..Len(listings) |-> Len(listings[i].dirs)], Len(listings))
Failures == Cardinality({o \in opens : o.result # "ok"})

FileListings(top) ==
    LET own == IF top = <<>> /\ ignoreFile # "absent" THEN {gitignore_name} ELSE {}
    IN {S \cup own : S \in {T \in SUBSET PlainNames :
                                 Cardinality(T) <= MaxFiles - FilesSeen}}

DirListings(top) == {D \in SUBSET DirNames : Cardinality(D) <= MaxDirs - DirsSeen}

(* ------------------------------- Init ---------------------------------- *)
Init ==
    /\ argc \in 1..MaxArgc
    /\ pc = "main"
    /\ ignoreFile = "unknown"
    /\ gitignore_spec = None
    /\ stack = <<>>
    /\ root = <<>>
    /\ dirs = <<>>
    /\ files = <<>>
    /\ output = <<>>
    /\ skipped_count = 0
    /\ clipboard = <<>>
    /\ stdout = <<>>
    /\ visited = {}
    /\ opens = {}
    /\ listings = <<>>

(* ------------------------------ __main__ ------------------------------- *)
WrongArgCount_TooFew == argc < 2

WrongArgCount == argc # 2

Usage ==
    /\ pc = "main"
    /\ WrongArgCount
    /\ stdout' = Append(stdout, [line |-> "usage", skipped |-> 0])
    /\ pc' = "exit"
    /\ UNCHANGED <<argc, ignoreFile, gitignore_spec, stack, root, dirs, files,
                   output, skipped_count, clipboard, visited, opens, listings>>

CallDump ==
    /\ pc = "main"
    /\ ~ WrongArgCount
    /\ pc' = "load"
    /\ output' = <<>>
    /\ skipped_count' = 0
    /\ UNCHANGED <<argc, ignoreFile, gitignore_spec, stack, root, dirs, files,
                   clipboard, stdout, visited, opens, listings>>

(* -------------------------- get_gitignore_spec ------------------------- *)
StartWalk ==
    /\ pc' = "walk"
    /\ stack' = << <<>> >>
    /\ UNCHANGED <<argc, root, dirs, files, output, skipped_count, clipboard,
                   stdout, visited, opens, listings>>

LoadAbsent ==
    /\ pc = "load"
    /\ ignoreFile' = "absent"
    /\ gitignore_spec' = None
    /\ StartWalk

LoadOk ==
    /\ pc = "load"
    /\ \E patterns \in IgnoreFiles :
          gitignore_spec' = PathSpec(patterns)
    /\ ignoreFile' = "ok"
    /\ StartWalk

LoadError_Swallowed ==
    /\ pc = "load"
    /\ \E e \in LoadErrors : ignoreFile' = e
    /\ gitignore_spec' = None
    /\ StartWalk

LoadError ==
    /\ pc = "load"
    /\ \E e \in LoadErrors : ignoreFile' = e
    /\ pc' = "aborted"
    /\ UNCHANGED <<argc, gitignore_spec, stack, root, dirs, files, output,
                   skipped_count, clipboard, stdout, visited, opens, listings>>

(* ------------------------- the walk of the tree ------------------------ *)
WalkYield ==
    /\ pc = "walk"
    /\ files = <<>>
    /\ Pushed # <<>>
    /\ LET top == Pushed[Len(Pushed)]
       IN /\ root' = top
          /\ stack' = SubSeq(Pushed, 1, Len(Pushed) - 1)
          /\ \E fs \in FileListings(top), ds \in DirListings(top) :
                /\ files' = InOrder(FileOrder, fs)
                /\ dirs' = prune(InOrder(DirOrder, ds))
                /\ listings' = Append(listings,
                       [root |-> top, dirs |-> InOrder(DirOrder, ds),
                        files |-> InOrder(FileOrder, fs)])
    /\ UNCHANGED <<argc, pc, ignoreFile, gitignore_spec, output, skipped_count,
                   clipboard, stdout, visited, opens>>

WalkEnd ==
    /\ pc = "walk"
    /\ files = <<>>
    /\ Pushed = <<>>
    /\ pc' = "copy"
    /\ dirs' = <<>>
    /\ UNCHANGED <<argc, ignoreFile, gitignore_spec, stack, root, files, output,
                   skipped_count, clipboard, stdout, visited, opens, listings>>

(* --------------------------- the loop body ----------------------------- *)
rel_path == Append(root, Head(files))
filepath == base_path \o rel_path

NextFile ==
    /\ files' = Tail(files)
    /\ visited' = visited \cup {rel_path}
    /\ UNCHANGED <<argc, pc, ignoreFile, gitignore_spec, stack, root, dirs,
                   clipboard, stdout, listings>>

(* the reads that may fail: at most MaxFailures of a run, and not the one   *)
(* of the root's ignore file, which get_gitignore_spec has just read        *)
MayFail(rel) == Failures < MaxFailures /\ rel # <<gitignore_name>>

SkipIgnored ==
    /\ pc = "walk"
    /\ files # <<>>
    /\ Classify(gitignore_spec, rel_path) = "ignored"
    /\ NextFile
    /\ UNCHANGED <<output, skipped_count, opens>>

SkipBinary ==
    /\ pc = "walk"
    /\ files # <<>>
    /\ Classify(gitignore_spec, rel_path) = "binary"
    /\ skipped_count' = skipped_count + 1
    /\ NextFile
    /\ UNCHANGED <<output, opens>>

ReadOk ==
    /\ pc = "walk"
    /\ files # <<>>
    /\ Classify(gitignore_spec, rel_path) = "candidate"
    /\ opens' = opens \cup {[path |-> rel_path, result |-> "ok"]}
    /\ output' = output \o <<Header(rel_path), Content(rel_path), Blank>>
    /\ NextFile
    /\ UNCHANGED skipped_count

ReadSkipped ==
    /\ pc = "walk"
    /\ files # <<>>
    /\ Classify(gitignore_spec, rel_path) = "candidate"
    /\ MayFail(rel_path)
    /\ \E e \in ReadErrors :
          /\ e \in SkipErrors
          /\ opens' = opens \cup {[path |-> rel_path, result |-> e]}
    /\ output' = Append(output, Header(rel_path))
    /\ skipped_count' = skipped_count + 1
    /\ NextFile

ReadFailed ==
    /\ pc = "walk"
    /\ files # <<>>
    /\ Classify(gitignore_spec, rel_path) = "candidate"
    /\ MayFail(rel_path)
    /\ \E e \in ReadErrors :
          /\ e \notin SkipErrors
          /\ opens' = opens \cup {[path |-> rel_path, result |-> e]}
          /\ output' = output \o <<Header(rel_path), CouldNotRead(filepath, e), Blank>>
    /\ NextFile
    /\ UNCHANGED skipped_count

(* ------------------------- publish and report -------------------------- *)
Copy_InLoop ==
    /\ pc = "walk"
    /\ files = <<>>
    /\ Len(clipboard) < Len(listings)
    /\ clipboard' = Append(clipboard, join(output))
    /\ UNCHANGED <<argc, pc, ignoreFile, gitignore_spec, stack, root, dirs, files,
                   output, skipped_count, stdout, visited, opens, listings>>

Copy ==
    /\ pc = "copy"
    /\ clipboard' = Append(clipboard, join(output))
    /\ pc' = "print"
    /\ UNCHANGED <<argc, ignoreFile, gitignore_spec, stack, root, dirs, files,
                   output, skipped_count, stdout, visited, opens, listings>>

PrintSummary ==
    /\ pc = "print"
    /\ stdout' = Append(stdout, [line |-> "success", skipped |-> skipped_count])
    /\ pc' = "done"
    /\ UNCHANGED <<argc, ignoreFile, gitignore_spec, stack, root, dirs, files,
                   output, skipped_count, clipboard, visited, opens, listings>>

Next ==
    \/ Usage
    \/ CallDump
    \/ LoadAbsent
    \/ LoadOk
    \/ LoadError
    \/ WalkYield
    \/ WalkEnd
    \/ SkipIgnored
    \/ SkipBinary
    \/ ReadOk
    \/ ReadSkipped
    \/ ReadFailed
    \/ Copy
    \/ PrintSummary

Spec == Init /\ [][Next]_vars

(* the program is sequential: whenever a step is possible it is taken *)
FairSpec == Spec /\ WF_vars(Next)

(* ======================================================================= *)
(* Properties                                                              *)
(* ======================================================================= *)

(* vocabulary of the properties, stated on the names themselves *)
GitLike(d) ==
    Len(d) >= 4 /\ d[1] = "." /\ d[2] = "g" /\ d[3] = "i" /\ d[4] = "t"

DenyListed(rel) ==
    \E ext \in BINARY_EXTENSIONS : lower(suffix(rel[Len(rel)])) = ext

IgnoreMatches(rel) ==
    ~ gitignore_spec.isNone /\ match_file(gitignore_spec.patterns, rel)

ReadAs(rel, e) == [path |-> rel, result |-> e]

(* the relative paths a published text shows *)
Shows(text, rel) ==
    \E i \in 1..Len(text) :
        \/ text[i].kind \in {"header", "content"} /\ text[i].path = rel
        \/ text[i].kind = "could_not_read" /\ text[i].path = base_path \o rel

FilesShown(text) == {rel \in visited : Shows(text, rel)}

Published == Len(clipboard) > 0

(* the step under way is the loop body run on the file rel_path *)
BodyStep == pc = "walk" /\ files # <<>> /\ visited' # visited

(* C1: every file the published output shows was not matched by the ignore *)
(* spec, has no denylisted extension and was read as text; a file whose    *)
(* read raised UnicodeDecodeError, PermissionError or IsADirectoryError    *)
(* leaves nothing in the output.                                           *)
C1_OutputShowsOnlyDecodedFiles ==
    \A k \in 1..Len(clipboard) : \A rel \in visited :
        /\ Shows(clipboard[k], rel) =>
              /\ ~ IgnoreMatches(rel)
              /\ ~ DenyListed(rel)
              /\ ReadAs(rel, "ok") \in opens
        /\ (\E e \in {"UnicodeDecodeError", "PermissionError", "IsADirectoryError"} :
               ReadAs(rel, e) \in opens) => ~ Shows(clipboard[k], rel)

(* C2: a visited file the ignore spec matches adds nothing to the output,  *)
(* leaves skipped_count unchanged and is not opened, also when its         *)
(* extension is denylisted.                                                *)
C2_IgnoredFileLeavesNoTrace ==
    [][(BodyStep /\ IgnoreMatches(rel_path)) =>
          (output' = output /\ skipped_count' = skipped_count /\ opens' = opens)]_vars

C2_Witness ==
    /\ pc = "done"
    /\ \E rel \in visited : IgnoreMatches(rel) /\ DenyListed(rel)
    /\ skipped_count = 0

(* C3: a visited file the ignore spec does not match and whose extension,  *)
(* compared without regard to case, is denylisted adds exactly 1 to        *)
(* skipped_count, is not opened and adds nothing to the output.            *)
C3_DenyListedFileCountedOnce ==
    [][(BodyStep /\ ~ IgnoreMatches(rel_path) /\ DenyListed(rel_path)) =>
          (skipped_count' = skipped_count + 1 /\ output' = output /\ opens' = opens)]_vars

C3_Witness ==
    /\ pc = "done"
    /\ \E rel \in visited :
          /\ ~ IgnoreMatches(rel)
          /\ DenyListed(rel)
          /\ suffix(rel[Len(rel)]) \notin BINARY_EXTENSIONS
    /\ skipped_count >= 1

(* the walk goes on with the next file of the same directory *)
WalkGoesOn ==
    /\ pc' = "walk"
    /\ files' = Tail(files)
    /\ stack' = stack
    /\ dirs' = dirs

(* C4 as stated: a read that fails because the content is undecodable,     *)
(* permission is denied, the path is a directory or the file has been      *)
(* removed adds exactly 1 to skipped_count and the walk goes on.           *)
C4_Original ==
    [][(BodyStep /\ \E e \in {"UnicodeDecodeError", "PermissionError",
                              "IsADirectoryError", "FileNotFoundError"} :
                        ReadAs(rel_path, e) \in opens' \ opens) =>
          (skipped_count' = skipped_count + 1 /\ WalkGoesOn)]_vars

(* C4 as amended: a read that fails with UnicodeDecodeError,               *)
(* PermissionError or IsADirectoryError adds exactly 1 to skipped_count    *)
(* and the walk goes on with the next candidate.                           *)
C4_ExpectedFailureCountedOnce ==
    [][(BodyStep /\ \E e \in {"UnicodeDecodeError", "PermissionError",
                              "IsADirectoryError"} :
                        ReadAs(rel_path, e) \in opens' \ opens) =>
          (skipped_count' = skipped_count + 1 /\ WalkGoesOn)]_vars

C4_Witness ==
    /\ pc = "done"
    /\ \E i, j \in 1..Len(output) :
          /\ i < j
          /\ output[i].kind = "header"
          /\ ReadAs(output[i].path, "PermissionError") \in opens
          /\ output[j].kind = "content"
    /\ skipped_count = 1

(* C5: a read that fails with any other exception adds a placeholder       *)
(* naming the path and the error instead of the content, leaves            *)
(* skipped_count unchanged, and the walk goes on.                          *)
C5_UnexpectedFailureSurfaced ==
    [][(BodyStep /\ \E e \in ReadErrors : ReadAs(rel_path, e) \in opens' \ opens) =>
          \A e \in ReadErrors \ {"UnicodeDecodeError", "PermissionError",
                                 "IsADirectoryError"} :
              ReadAs(rel_path, e) \in opens' =>
                  /\ Len(output') > Len(output)
                  /\ SubSeq(output', 1, Len(output)) = output
                  /\ \E i \in Len(output) + 1 .. Len(output') :
                        output'[i] = CouldNotRead(filepath, e)
                  /\ \A i \in Len(output) + 1 .. Len(output') :
                        output'[i].kind # "content"
                  /\ skipped_count' = skipped_count
                  /\ WalkGoesOn]_vars

C5_Witness ==
    /\ pc = "done"
    /\ skipped_count = 0
    /\ \E rel \in visited :
          /\ ReadAs(rel, "FileNotFoundError") \in opens
          /\ \E i \in 1..Len(clipboard[1]) :
                clipboard[1][i] = CouldNotRead(base_path \o rel, "FileNotFoundError")

(* some directory on the way to rel, or rel itself when a directory,       *)
(* has a name beginning with .git                                          *)
UnderGit(dirpath) == \E i \in 1..Len(dirpath) : GitLike(dirpath[i])

(* C6: a directory whose name begins with .git is never scanned, at any    *)
(* depth, and no file below it is visited, opened, output or counted;      *)
(* the directories beside it are scanned and their files visited.          *)
C6_GitDirectoriesPruned ==
    /\ \A i \in 1..Len(listings) : ~ UnderGit(listings[i].root)
    /\ \A rel \in visited : ~ UnderGit(SubSeq(rel, 1, Len(rel) - 1))
    /\ \A o \in opens : o.path \in visited
    /\ \A i \in 1..Len(output) :
          output[i].kind \in {"header", "content"} => output[i].path \in visited
    /\ skipped_count <= Cardinality(visited)
    /\ pc \in {"copy", "print", "done"} =>
          \A i \in 1..Len(listings) :
              /\ \A j \in 1..Len(listings[i].dirs) :
                    ~ GitLike(listings[i].dirs[j]) =>
                        \E k \in 1..Len(listings) :
                            listings[k].root = Append(listings[i].root, listings[i].dirs[j])
              /\ \A j \in 1..Len(listings[i].files) :
                    Append(listings[i].root, listings[i].files[j]) \in visited

C6_Witness ==
    /\ pc = "done"
    /\ \E i \in 1..Len(listings) :
          \E j, k \in 1..Len(listings[i].dirs) :
              /\ GitLike(listings[i].dirs[j])
              /\ listings[i].dirs[j] # dot_git
              /\ ~ GitLike(listings[i].dirs[k])
              /\ \E rel \in visited :
                    /\ Len(rel) = Len(listings[i].root) + 2
                    /\ SubSeq(rel, 1, Len(rel) - 1) =
                          Append(listings[i].root, listings[i].dirs[k])
                    /\ ReadAs(rel, "ok") \in opens

(* C7: when the ignore file exists and cannot be decoded the run aborts:   *)
(* no directory is scanned, no file visited, nothing is published and no   *)
(* summary is printed.                                                     *)
C7_UndecodableIgnoreFileAborts ==
    ignoreFile = "UnicodeDecodeError" =>
        /\ pc = "aborted"
        /\ listings = <<>>
        /\ visited = {}
        /\ opens = {}
        /\ clipboard = <<>>
        /\ stdout = <<>>

C7_Witness == ignoreFile = "UnicodeDecodeError" /\ pc = "aborted"

(* C8: with an argument count other than one (len(sys.argv) # 2) the       *)
(* entry point prints the usage message and nothing else happens.          *)
C8_WrongArgCountOnlyPrintsUsage ==
    argc # 2 =>
        /\ pc \in {"main", "exit"}
        /\ pc = "main" => stdout = <<>>
        /\ pc = "exit" => stdout = << [line |-> "usage", skipped |-> 0] >>
        /\ ignoreFile = "unknown"
        /\ listings = <<>>
        /\ visited = {}
        /\ opens = {}
        /\ clipboard = <<>>

C8_Witness == argc = 3 /\ pc = "exit"

(* the run of Scenario C: the ignore file holds the one pattern            *)
(* secret.txt, the root holds the ignore file, public.txt and secret.txt   *)
(* and nothing else, and every read succeeded                              *)
ScenarioC ==
    /\ pc = "done"
    /\ gitignore_spec = PathSpec(<< [neg |-> FALSE, name |-> secret_txt] >>)
    /\ listings = << [root |-> <<>>, dirs |-> <<>>,
                      files |-> <<gitignore_name, public_txt, secret_txt>>] >>
    /\ \A o \in opens : o.result = "ok"

ReportedSkips == stdout[Len(stdout)].skipped

(* C9 as stated: in Scenario C public.txt is the only file the published   *)
(* output shows and the reported skip count is 0.                          *)
C9_Original ==
    ScenarioC =>
        /\ FilesShown(clipboard[1]) = { <<public_txt>> }
        /\ ReportedSkips = 0

(* C9 as amended: in Scenario C the published output shows public.txt and  *)
(* the ignore file itself, it does not show secret.txt, and the reported   *)
(* skip count is 0.                                                        *)
C9_ScenarioC ==
    ScenarioC =>
        /\ FilesShown(clipboard[1]) = { <<public_txt>>, <<gitignore_name>> }
        /\ ReportedSkips = 0

C9_Witness == ScenarioC

(* the listed files and directories that the walk has to go through *)
WalkComplete ==
    /\ files = <<>>
    /\ stack = <<>>
    /\ \A i \in 1..Len(listings) :
          /\ \A j \in 1..Len(listings[i].files) :
                Append(listings[i].root, listings[i].files[j]) \in visited
          /\ \A j \in 1..Len(listings[i].dirs) :
                ~ GitLike(listings[i].dirs[j]) =>
                    \E k \in 1..Len(listings) :
                        listings[k].root = Append(listings[i].root, listings[i].dirs[j])

(* C10 as stated: every run of dump_all_files ends with the clipboard      *)
(* written exactly once.                                                   *)
C10_Original ==
    (argc = 2 /\ pc \in {"aborted", "done"}) => Len(clipboard) = 1

(* C10 as amended: a run whose ignore file is absent or readable always    *)
(* completes; the clipboard is written at most once, only after the walk   *)
(* is complete, with the newline-join of the output segments, and the      *)
(* skip count is printed after that.                                       *)
C10_RunCompletesAndPublishesOnce ==
    /\ [](/\ Len(clipboard) <= 1
          /\ Published =>
                /\ pc \in {"print", "done"}
                /\ WalkComplete
                /\ clipboard[1] = join(output)
                /\ Len(clipboard[1]) = IF output = <<>> THEN 0 ELSE 2 * Len(output) - 1
                /\ \A i \in 1..Len(output) : clipboard[1][2 * i - 1] = output[i]
          /\ stdout # <<>> /\ argc = 2 =>
                /\ Published
                /\ pc = "done"
                /\ stdout = << [line |-> "success", skipped |-> skipped_count] >>
          /\ pc = "done" => Published /\ stdout # <<>>)
    /\ (pc = "walk") ~> (pc = "done")

C10_Witness ==
    /\ pc = "done"
    /\ Len(clipboard) = 1
    /\ Len(listings) >= 2
    /\ \E o \in opens : o.result = "ok"
    /\ \E o \in opens : o.result # "ok"

====
